---- MODULE Spec2Model ----
(***************************************************************************)
(* A model of the file categorisation tool (src/app.py): path resolution,  *)
(* directory enumeration, the category selection kept in the Streamlit     *)
(* session, the grouping step and the three exporters.                     *)
(*                                                                         *)
(* A Python str that the code takes apart (paths, file names) is a         *)
(* sequence of one-character strings; a str the code only passes around    *)
(* (category labels, dates, column titles) is a TLA+ string.               *)
(***************************************************************************)
EXTENDS Naturals, Integers, Sequences, FiniteSets, TLC

VARIABLES
    fs,                 \* the filesystem: directory location -> its listing
    unc_env,            \* the environment variable UNC_PATH
    directory_path,     \* the text input of the sidebar
    options,            \* session: generate_excel/word/pdf_option
    selectbox,          \* widget state: selectbox_{index}, for rendered widgets
    category_selection, \* session: st.session_state.category_selection
    generated_files,    \* session: st.session_state.generated_files
    output_files,       \* the files an exporter saved under a fixed name
    run                 \* what the last call or script run did and showed

vars == <<fs, unc_env, directory_path, options, selectbox,
          category_selection, generated_files, output_files, run>>

(***************************************************************************)
(* Bounds of the model.                                                    *)
(***************************************************************************)
MaxEntries == 3     \* directory entries created in the enumeration model
MaxAssign == 2      \* entries of the assignment mapping in the export model

(***************************************************************************)
(* Strings.                                                                *)
(***************************************************************************)
Sep == "\\"
AltSep == "/"
Colon == ":"
CurDir == <<".">>
ParDir == <<".", ".">>

Min(a, b) == IF a <= b THEN a ELSE b

\* s[:n]
Take(s, n) == SubSeq(s, 1, Min(n, Len(s)))

\* s[n:]
Drop(s, n) == SubSeq(s, n + 1, Len(s))

\* s.startswith(p)
StartsWith(s, p) == Len(p) <= Len(s) /\ SubSeq(s, 1, Len(p)) = p

\* the smallest index of a set of indices, 0 for none
FirstOf(hits) ==
    IF hits = {} THEN 0 ELSE CHOOSE i \in hits : \A j \in hits : i <= j

\* s.find(c, start) for a one-character c, 1-based; 0 when absent
FindChar(s, c, start) == FirstOf({i \in start..Len(s) : s[i] = c})

\* s.find(old), 1-based; 0 when absent
FindSub(s, old) ==
    FirstOf({i \in 1..(Len(s) + 1 - Len(old)) : SubSeq(s, i, i + Len(old) - 1) = old})

ReplaceAt(s, old, new, i) ==
    IF i = 0 THEN s
    ELSE SubSeq(s, 1, i - 1) \o new \o SubSeq(s, i + Len(old), Len(s))

\* s.replace(old, new, 1): the first occurrence only, wherever it is
ReplaceFirst(s, old, new) == ReplaceAt(s, old, new, FindSub(s, old))

\* path.replace(altsep, sep)
ReplaceAltSep(s) == [i \in 1..Len(s) |-> IF s[i] = AltSep THEN Sep ELSE s[i]]

\* s.split(sep)
RECURSIVE SplitSep(_)
SplitAt(s, i) ==
    IF i = 0 THEN <<s>>
    ELSE <<SubSeq(s, 1, i - 1)>> \o SplitSep(Drop(s, i))
SplitSep(s) == SplitAt(s, FindChar(s, Sep, 1))

\* sep.join(comps)
RECURSIVE JoinSep(_)
JoinSep(comps) ==
    IF comps = <<>> THEN <<>>
    ELSE IF Len(comps) = 1 THEN comps[1]
    ELSE comps[1] \o <<Sep>> \o JoinSep(Tail(comps))

(***************************************************************************)
(* ntpath, as src/app.py uses it: the tool maps drive letters to UNC       *)
(* shares, so os.path is the Windows flavour.                              *)
(***************************************************************************)
\* ntpath.splitroot: (drive, root, tail); n is p with "/" turned into "\"
SplitUnc(p, index2) ==
    IF index2 = 0
    THEN [drive |-> p, root |-> <<>>, tail |-> <<>>]
    ELSE [drive |-> Take(p, index2 - 1),
          root |-> SubSeq(p, index2, index2),
          tail |-> Drop(p, index2)]

SplitUncServer(p, n, index) ==
    SplitUnc(p, IF index = 0 THEN 0 ELSE FindChar(n, Sep, index + 1))

SplitNormalized(p, n) ==
    IF Take(n, 1) = <<Sep>>
    THEN IF SubSeq(n, 2, Min(2, Len(n))) = <<Sep>>
         THEN SplitUncServer(p, n, FindChar(n, Sep, 3))
         ELSE [drive |-> <<>>, root |-> Take(p, 1), tail |-> Drop(p, 1)]
    ELSE IF SubSeq(n, 2, Min(2, Len(n))) = <<Colon>>
    THEN IF SubSeq(n, 3, Min(3, Len(n))) = <<Sep>>
         THEN [drive |-> Take(p, 2), root |-> SubSeq(p, 3, 3), tail |-> Drop(p, 3)]
         ELSE [drive |-> Take(p, 2), root |-> <<>>, tail |-> Drop(p, 2)]
    ELSE [drive |-> <<>>, root |-> <<>>, tail |-> p]

SplitRoot(p) == SplitNormalized(p, ReplaceAltSep(p))

\* The component loop of ntpath.normpath: drop empty and "." components and
\* resolve ".." against the component before it.
RECURSIVE Collapse(_, _, _)
CollapseOne(done, c, rest, rooted) ==
    IF c = <<>> \/ c = CurDir THEN Collapse(done, rest, rooted)
    ELSE IF c = ParDir
    THEN IF done # <<>> /\ done[Len(done)] # ParDir
         THEN Collapse(SubSeq(done, 1, Len(done) - 1), rest, rooted)
         ELSE IF done = <<>> /\ rooted
         THEN Collapse(done, rest, rooted)
         ELSE Collapse(Append(done, c), rest, rooted)
    ELSE Collapse(Append(done, c), rest, rooted)
Collapse(done, todo, rooted) ==
    IF todo = <<>> THEN done
    ELSE CollapseOne(done, Head(todo), Tail(todo), rooted)

\* os.path.normpath
NormJoin(prefix, comps) ==
    IF prefix = <<>> /\ comps = <<>> THEN CurDir
    ELSE prefix \o JoinSep(comps)

NormSplit(sr) ==
    NormJoin(sr.drive \o sr.root,
             Collapse(<<>>, SplitSep(sr.tail), sr.root # <<>>))

normpath(path) == NormSplit(SplitRoot(ReplaceAltSep(path)))

\* os.path.join(root, name) for a bare entry name
join(root, name) ==
    IF root = <<>> THEN name
    ELSE IF root[Len(root)] \in {Sep, AltSep, Colon} THEN root \o name
    ELSE root \o <<Sep>> \o name

(***************************************************************************)
(* The filesystem.  A location is a volume (a drive or a UNC share)        *)
(* followed by component names; fs maps every directory location to its    *)
(* listing, in the order scandir returns it.  An entry is                  *)
(* [name, kind, stat, mtime]: stat = FALSE when os.path.getmtime raises    *)
(* OSError for it, mtime counts days.                                      *)
(***************************************************************************)
CDrive == <<"C", ":">>
ShareS == <<"\\", "\\", "S", "\\", "h">>
ShareN == <<"\\", "\\", "N", "\\", "x">>
\* r"\\Server\SharedDrive", the share the code maps Y: to
YDriveUnc == <<"\\", "\\", "S", "e", "r", "v", "e", "r", "\\",
               "S", "h", "a", "r", "e", "d", "D", "r", "i", "v", "e">>
\* the working directory of the process, which relative paths resolve against
Cwd == <<CDrive, <<"w">>>>

DirEntry(name) == [name |-> name, kind |-> "dir", stat |-> TRUE, mtime |-> 0]
FileEntry(name, stat, mtime) ==
    [name |-> name, kind |-> "file", stat |-> stat, mtime |-> mtime]

Parent(loc) == SubSeq(loc, 1, Len(loc) - 1)
Last(s) == s[Len(s)]

\* Follow components from a location, as the OS does for "." and "..".
RECURSIVE Descend(_, _)
DescendOne(loc, c, rest) ==
    IF c = <<>> \/ c = CurDir THEN Descend(loc, rest)
    ELSE IF c = ParDir
    THEN Descend(IF Len(loc) > 1 THEN Parent(loc) ELSE loc, rest)
    ELSE Descend(Append(loc, c), rest)
Descend(loc, comps) ==
    IF comps = <<>> THEN loc
    ELSE DescendOne(loc, Head(comps), Tail(comps))

LocateSplit(sr) ==
    Descend(IF sr.drive # <<>>
            THEN IF sr.root # <<>> \/ sr.drive # Cwd[1] THEN <<sr.drive>> ELSE Cwd
            ELSE IF sr.root # <<>> THEN <<Cwd[1]>> ELSE Cwd,
            SplitSep(sr.tail))

\* The location a path string names.
Locate(p) == LocateSplit(SplitRoot(ReplaceAltSep(p)))

IsDir(loc) == loc \in DOMAIN fs

EntriesAt(loc) ==
    IF Len(loc) > 1 /\ Parent(loc) \in DOMAIN fs
    THEN {i \in 1..Len(fs[Parent(loc)]) : fs[Parent(loc)][i].name = Last(loc)}
    ELSE {}

IsFile(loc) ==
    \E i \in EntriesAt(loc) : fs[Parent(loc)][i].kind = "file"

\* os.path.exists
ExistsAt(loc) == IsDir(loc) \/ IsFile(loc)
exists(p) == ExistsAt(Locate(p))

\* os.path.getmtime: [raised, mtime]
MtimeOf(e) == [raised |-> ~e.stat, mtime |-> e.mtime]
MtimeAt(loc) ==
    IF IsFile(loc)
    THEN MtimeOf(fs[Parent(loc)][CHOOSE i \in EntriesAt(loc) : TRUE])
    ELSE IF IsDir(loc) THEN [raised |-> FALSE, mtime |-> 0]
    ELSE [raised |-> TRUE, mtime |-> 0]
getmtime(p) == MtimeAt(Locate(p))

\* datetime.fromtimestamp(t).strftime('%Y-%m-%d')
Dates == <<"2024-01-01", "2024-01-02">>
strftime(t) == Dates[t + 1]

NamesIn(picked) == [i \in 1..Len(picked) |-> picked[i].name]
NamesOfKind(listing, kind) ==
    NamesIn(SelectSeq(listing, LAMBDA e : e.kind = kind))

\* os.walk(top), top-down, links not followed, scandir errors ignored: the
\* sequence of (root, dirs, files) triples.
RECURSIVE walk(_)
RECURSIVE WalkDirs(_, _)
WalkListing(top, dirs, files) ==
    <<[root |-> top, dirs |-> dirs, files |-> files]>> \o WalkDirs(top, dirs)
WalkAt(top, loc) ==
    IF ~IsDir(loc) THEN <<>>
    ELSE WalkListing(top, NamesOfKind(fs[loc], "dir"), NamesOfKind(fs[loc], "file"))
walk(top) == WalkAt(top, Locate(top))

\* a walk that forgets to descend
WalkDirsShallow(top, dirs) == <<>>

WalkDirs(top, dirs) ==
    IF dirs = <<>> THEN <<>>
    ELSE walk(join(top, Head(dirs))) \o WalkDirs(top, Tail(dirs))

(***************************************************************************)
(* get_files and resolve_path.                                             *)
(***************************************************************************)
Unavailable == "Unavailable"

\* lines 45-53: the try/except around getmtime, and the tuple appended
RecordWith(name, full_path, relative_full_path, m) ==
    [name |-> name,
     modified_time |-> IF m.raised THEN Unavailable ELSE strftime(m.mtime),
     full_path |-> full_path,
     relative_full_path |-> relative_full_path]

\* lines 44-53
RecordAt(name, full_path, path, original_path) ==
    RecordWith(name, full_path, ReplaceFirst(full_path, path, original_path),
               getmtime(full_path))

\* The body of the inner loop of get_files for one file name.
FileRecord(root, name, path, original_path) ==
    RecordAt(name, normpath(join(root, name)), path, original_path)

RECURSIVE FilesOfTriples(_, _, _)
FilesOfTriple(t, rest, path, original_path) ==
    [i \in 1..Len(t.files) |-> FileRecord(t.root, t.files[i], path, original_path)]
        \o FilesOfTriples(rest, path, original_path)
FilesOfTriples(triples, path, original_path) ==
    IF triples = <<>> THEN <<>>
    ELSE FilesOfTriple(Head(triples), Tail(triples), path, original_path)

\* get_files without the try/except of lines 45-50: the first getmtime that
\* raises ends the enumeration
GetFilesUncaught(path, original_path) ==
    IF ~exists(path) THEN [raised |-> "ValueError", items |-> <<>>]
    ELSE LET items == FilesOfTriples(walk(path), path, original_path)
         IN  IF \E i \in 1..Len(items) : getmtime(items[i].full_path).raised
             THEN [raised |-> "OSError", items |-> <<>>]
             ELSE [raised |-> "none", items |-> items]

\* get_files(path, original_path): [raised, items]
get_files(path, original_path) ==
    IF ~exists(path) THEN [raised |-> "ValueError", items |-> <<>>]
    ELSE [raised |-> "none",
          items |-> FilesOfTriples(walk(path), path, original_path)]

\* drive_mappings: None stands for an unset UNC_PATH
drive_mappings ==
    [d \in {<<"Z", ":">>, <<"Y", ":">>} |->
        IF d = <<"Z", ":">> THEN unc_env ELSE [set |-> TRUE, value |-> YDriveUnc]]

\* lines 82-96: the existence check every branch ends with
IfExists(path) ==
    IF ~exists(path)
    THEN [raised |-> "ValueError", path |-> path]
    ELSE [raised |-> "none", path |-> path]

\* line 81: None + path[2:] raises TypeError
ResolveMapped(path, prefix) ==
    IF ~prefix.set
    THEN [raised |-> "TypeError", path |-> <<>>]
    ELSE IfExists(normpath(prefix.value \o Drop(path, 2)))

\* lines 79-96
ResolveNormalized(path) ==
    IF Take(path, 2) \in DOMAIN drive_mappings
    THEN ResolveMapped(path, drive_mappings[Take(path, 2)])
    ELSE IF StartsWith(path, <<Sep, Sep>>) THEN IfExists(path)
    ELSE IfExists(path)

\* resolve_path(path): [raised, path]
resolve_path(input) == ResolveNormalized(normpath(input))

(***************************************************************************)
(* The assignment mapping, the grouping step and the exporters.            *)
(* A Python dict is the sequence of its items in insertion order.          *)
(***************************************************************************)
\* line 258
categories ==
    <<"CONTRACTUAL", "ARCHITECTURAL", "STRUCTURAL", "SERVICES", "SAFETY", "OTHER">>

Formats == {"excel", "word", "pdf"}

Range(s) == {s[i] : i \in 1..Len(s)}

KeyIndex(d, name) ==
    LET hits == {i \in 1..Len(d) : d[i].name = name}
    IN  IF hits = {} THEN 0 ELSE CHOOSE i \in hits : TRUE

\* line 277: category_selection[name] = (modified_time, category)
DictSet(d, name, modified_time, category) ==
    LET item == [name |-> name, modified_time |-> modified_time,
                 category |-> category]
        i == KeyIndex(d, name)
    IN  IF i = 0 THEN Append(d, item) ELSE [d EXCEPT ![i] = item]

\* line 287: {cat: [] for cat in categories}
EmptyGroups == [i \in 1..Len(categories) |-> [category |-> categories[i], items |-> <<>>]]

\* dict.fromkeys(categories, []): one list shared by every key
RECURSIVE GroupShared(_, _)
GroupShared(data, selection) ==
    IF selection = <<>> THEN [raised |-> "none", data |-> data]
    ELSE LET e == Head(selection)
             pair == [name |-> e.name, modified_time |-> e.modified_time]
         IN  GroupShared([i \in 1..Len(data) |->
                             [data[i] EXCEPT !.items = Append(@, pair)]],
                         Tail(selection))

\* categorized_data.setdefault(category, []): keys in order of arrival
RECURSIVE ArrivalFold(_, _)
ArrivalFold(acc, selection) ==
    IF selection = <<>> THEN [raised |-> "none", data |-> acc]
    ELSE LET e == Head(selection)
             pair == [name |-> e.name, modified_time |-> e.modified_time]
         IN  IF \E i \in 1..Len(acc) : acc[i].category = e.category
             THEN ArrivalFold([i \in 1..Len(acc) |->
                                  IF acc[i].category = e.category
                                  THEN [acc[i] EXCEPT !.items = Append(@, pair)]
                                  ELSE acc[i]],
                              Tail(selection))
             ELSE ArrivalFold(Append(acc, [category |-> e.category,
                                           items |-> <<pair>>]),
                              Tail(selection))
GroupArrival(data, selection) == ArrivalFold(<<>>, selection)

\* lines 288-289: [raised, data]
RECURSIVE Group(_, _)
Group(data, selection) ==
    IF selection = <<>> THEN [raised |-> "none", data |-> data]
    ELSE LET e == Head(selection)
             pair == [name |-> e.name, modified_time |-> e.modified_time]
         IN  IF \A i \in 1..Len(data) : data[i].category # e.category
             THEN [raised |-> "KeyError", data |-> data]
             ELSE Group([i \in 1..Len(data) |->
                            IF data[i].category = e.category
                            THEN [data[i] EXCEPT !.items = Append(@, pair)]
                            ELSE data[i]],
                        Tail(selection))

\* The rows of a table.  The left cell of a row is a column title, a
\* category label or a file name; the right cell is a string.
HeaderRow == [left |-> [title |-> "Category / File Name"], right |-> "Last Modified"]
CategoryRow(category) == [left |-> [label |-> category], right |-> ""]
FileRow(text, modified_time) == [left |-> [text |-> text], right |-> modified_time]

\* lines 161-166 (and 125-137): the rows appended for the categories
RECURSIVE DataRows(_)
DataRows(data) ==
    IF data = <<>> THEN <<>>
    ELSE LET g == Head(data)
         IN  (IF g.items # <<>>
              THEN <<CategoryRow(g.category)>>
                   \o [i \in 1..Len(g.items) |->
                          FileRow(g.items[i].name, g.items[i].modified_time)]
              ELSE <<>>)
             \o DataRows(Tail(data))

\* generate_word: the rows of the document's table
generate_word(data) == <<HeaderRow>> \o DataRows(data)

\* generate_pdf: the rows of the table
generate_pdf(data) == <<HeaderRow>> \o DataRows(data)

\* f"   {name}"
Indent == <<" ", " ", " ">>

\* lines 188-193: the list the DataFrame is made of
RECURSIVE ExcelData(_)
ExcelData(data) ==
    IF data = <<>> THEN <<>>
    ELSE LET g == Head(data)
         IN  (IF g.items # <<>>
              THEN <<CategoryRow(g.category)>>
                   \o [i \in 1..Len(g.items) |->
                          FileRow(Indent \o g.items[i].name, g.items[i].modified_time)]
              ELSE <<>>)
             \o ExcelData(Tail(data))

BlankRow == [left |-> [blank |-> TRUE], right |-> ""]

\* worksheet.cell(row=r, ...) for both columns of a row: the sheet grows to r
SetRow(sheet, r, row) ==
    [i \in 1..(IF r > Len(sheet) THEN r ELSE Len(sheet)) |->
        IF i = r THEN row ELSE IF i <= Len(sheet) THEN sheet[i] ELSE BlankRow]

RECURSIVE WriteRows(_, _, _)
WriteRows(sheet, rows, at) ==
    IF rows = <<>> THEN sheet
    ELSE WriteRows(SetRow(sheet, at, Head(rows)), Tail(rows), at + 1)

\* df.to_excel(writer, index=False, startrow=1): the column names go to
\* sheet row startrow + 1 and the data below them; a frame made of an empty
\* list has no columns and writes nothing.
to_excel(df, startrow) ==
    IF df = <<>> THEN <<>>
    ELSE WriteRows(SetRow(<<>>, startrow + 1, HeaderRow), df, startrow + 2)

\* generate_excel: the rows of the sheet "Files"
generate_excel(data) ==
    LET df == ExcelData(data)
        written == to_excel(df, 1)
        titled == SetRow(written, 1, HeaderRow)        \* lines 200-204
    IN  WriteRows(titled, df, 0 + 2)                   \* lines 208-210

Render(format, data) ==
    IF format = "excel" THEN generate_excel(data)
    ELSE IF format = "word" THEN generate_word(data)
    ELSE generate_pdf(data)

\* lines 292-302: the selected exporters run in this order; one that raises
\* ends the run there.  acc is [files, made, raised].
ExportOrder == <<"excel", "word", "pdf">>

RECURSIVE ExportFold(_, _, _, _, _)
ExportFold(order, opts, fails, data, acc) ==
    IF order = <<>> THEN acc
    ELSE LET f == Head(order)
         IN  IF ~opts[f] THEN ExportFold(Tail(order), opts, fails, data, acc)
             ELSE IF f \in fails THEN [acc EXCEPT !.raised = f]
             ELSE ExportFold(Tail(order), opts, fails, data,
                             [acc EXCEPT !.files = (f :> Render(f, data)) @@ @,
                                         !.made = @ \cup {f}])

GroupedResult(g, r) ==
    [files |-> r.files, grouped |-> g.data, made |-> r.made, raised |-> r.raised]

ExportGrouped(g, opts, fails, files) ==
    IF g.raised # "none"
    THEN [files |-> files, grouped |-> g.data, made |-> {}, raised |-> g.raised]
    ELSE GroupedResult(g, ExportFold(ExportOrder, opts, fails, g.data,
                                     [files |-> files, made |-> {}, raised |-> "none"]))

\* lines 287-302: [files, grouped, made, raised]
GenerateStep(selection, opts, fails, files) ==
    ExportGrouped(Group(EmptyGroups, selection), opts, fails, files)

(***************************************************************************)
(* The record of the last call or script run.                              *)
(***************************************************************************)
NoRun ==
    [op |-> "none",
     input |-> <<>>,
     resolved |-> [raised |-> "none", path |-> <<>>],
     listing |-> [raised |-> "none", items |-> <<>>],
     grouped |-> <<>>,      \* categorized_data of a generate step
     made |-> {},           \* the formats rendered in this run
     raised |-> "none",     \* what ended the run early
     offered |-> {}]        \* the download buttons this run displayed

(***************************************************************************)
(* The enumeration model: directory trees are built entry by entry, and    *)
(* resolve_path and get_files are called on them as lines 251-255 do.      *)
(***************************************************************************)
EntryNames == {<<"a", ".", "t">>, <<"d">>}

PathInputs ==
    { <<".">>,
      <<".", "\\">>,
      <<"d">>,
      <<"d", "/">>,
      <<"a", ".", "t">>,
      <<"C", ":", "\\", "w", "\\", "d">>,
      <<"Z", ":", "\\">>,
      <<"Z", ":", "\\", "d">>,
      <<"Y", ":", "\\">>,
      <<"\\", "\\", "S", "\\", "h">>,
      <<"\\", "\\", "S", "\\", "h", "\\", "d">>,
      <<"Q", ":", "\\", "x">> }

Unset == [set |-> FALSE, value |-> <<>>]
SetTo(v) == [set |-> TRUE, value |-> v]

\* The deployments: what UNC_PATH is and whether the Y: share is there.
Sites ==
    { [env |-> Unset, yshare |-> TRUE],
      [env |-> SetTo(ShareS), yshare |-> FALSE],
      [env |-> SetTo(ShareN), yshare |-> FALSE] }

BaseFs(yshare) ==
    [loc \in {<<CDrive>>, Cwd, <<ShareS>>}
             \cup (IF yshare THEN {<<YDriveUnc>>} ELSE {}) |->
        IF loc = <<CDrive>> THEN <<DirEntry(Cwd[2])>> ELSE <<>>]

RECURSIVE SumLen(_)
SumLen(locs) ==
    IF locs = {} THEN 0
    ELSE LET l == CHOOSE l \in locs : TRUE
         IN  Len(fs[l]) + SumLen(locs \ {l})

\* entries created so far (the working directory's own entry is not counted)
EntryCount == SumLen(DOMAIN fs) - 1

\* entries are created below the working directory and in the Z: share
CreatableDirs == DOMAIN fs \ {<<CDrive>>, <<YDriveUnc>>}

HasName(loc, name) == \E i \in 1..Len(fs[loc]) : fs[loc][i].name = name

AppInitSession ==
    /\ directory_path = <<>>
    /\ options = [f \in {"excel", "word", "pdf"} |-> FALSE]
    /\ selectbox = <<>>
    /\ category_selection = <<>>
    /\ generated_files = <<>>
    /\ output_files = <<>>

UNCHANGED_session ==
    UNCHANGED <<directory_path, options, selectbox, category_selection,
                generated_files, output_files>>

InitFiles ==
    /\ \E site \in Sites :
          /\ fs = BaseFs(site.yshare)
          /\ unc_env = site.env
    /\ AppInitSession
    /\ run = NoRun

CreateFile(loc, name, stat, mtime) ==
    /\ EntryCount < MaxEntries
    /\ loc \in CreatableDirs
    /\ ~HasName(loc, name)
    /\ fs' = [fs EXCEPT ![loc] = Append(@, FileEntry(name, stat, mtime))]
    /\ run' = NoRun
    /\ UNCHANGED unc_env
    /\ UNCHANGED_session

MkDir(loc, name) ==
    /\ EntryCount < MaxEntries
    /\ loc \in CreatableDirs
    /\ ~HasName(loc, name)
    /\ fs' = [l \in DOMAIN fs \cup {Append(loc, name)} |->
                 IF l = loc THEN Append(fs[loc], DirEntry(name))
                 ELSE IF l \in DOMAIN fs THEN fs[l] ELSE <<>>]
    /\ run' = NoRun
    /\ UNCHANGED unc_env
    /\ UNCHANGED_session

\* line 251
CallResolvePath(input) ==
    /\ run.op = "none"
    /\ run' = [NoRun EXCEPT !.op = "resolve_path", !.input = input,
                            !.resolved = resolve_path(input)]
    /\ UNCHANGED <<fs, unc_env>>
    /\ UNCHANGED_session

\* lines 253-255
CallGetFiles ==
    /\ run.op = "resolve_path"
    /\ run.resolved.raised = "none"
    /\ run.resolved.path # <<>> /\ exists(run.resolved.path)
    /\ run' = [run EXCEPT !.op = "get_files",
                          !.listing = get_files(run.resolved.path, run.input)]
    /\ UNCHANGED <<fs, unc_env>>
    /\ UNCHANGED_session

NextFiles ==
    \/ \E loc \in DOMAIN fs, name \in EntryNames, stat \in BOOLEAN, mtime \in {0, 1} :
          /\ (~stat => mtime = 0)
          /\ CreateFile(loc, name, stat, mtime)
    \/ \E loc \in DOMAIN fs, name \in EntryNames : MkDir(loc, name)
    \/ \E input \in PathInputs : CallResolvePath(input)
    \/ CallGetFiles

SpecFiles == InitFiles /\ [][NextFiles]_vars

(***************************************************************************)
(* Claims about enumeration and path resolution (SpecFiles).               *)
(***************************************************************************)
IsPrefix(a, b) == Len(a) <= Len(b) /\ SubSeq(b, 1, Len(a)) = a

\* the regular files at any depth below a location
FilesUnder(root) ==
    UNION { {Append(d, fs[d][i].name) :
                i \in {j \in 1..Len(fs[d]) : fs[d][j].kind = "file"}} :
            d \in {x \in DOMAIN fs : IsPrefix(root, x)} }

Enumerated == run.op = "get_files" /\ run.listing.raised = "none"

RecordsOf(loc) ==
    {i \in 1..Len(run.listing.items) :
        Locate(run.listing.items[i].full_path) = loc}

Resolved == run.op \in {"resolve_path", "get_files"}

\* C6: resolve_path either returns a path that exists or raises the
\* ValueError the caller reports; an unmapped drive letter raises it.
C6_ResolveTotal ==
    Resolved =>
        /\ run.resolved.raised \in {"none", "ValueError"}
        /\ run.resolved.raised = "none" => exists(run.resolved.path)
        /\ run.input = <<"Q", ":", "\\", "x">> => run.resolved.raised = "ValueError"

\* C7: the display path is the absolute path with the resolved root at its
\* front replaced by the path the user typed; what lies below the root is
\* the same in both.  (Read generously: a path that does not carry the root
\* at its front and is displayed unchanged also counts.)
C7_DisplayPath ==
    Enumerated =>
        \A i \in 1..Len(run.listing.items) :
            LET r == run.listing.items[i]
                path == run.resolved.path
            IN  \/ /\ StartsWith(r.full_path, path)
                   /\ r.relative_full_path
                        = run.input \o Drop(r.full_path, Len(path))
                \/ /\ ~StartsWith(r.full_path, path)
                   /\ r.relative_full_path = r.full_path

(***************************************************************************)
(* The export model: the assignment mapping is filled item by item as      *)
(* line 277 does, in any order, and grouped and rendered as lines 287-302  *)
(* do.                                                                     *)
(***************************************************************************)
AssignNames == {<<"a", ".", "t">>, <<"b">>, <<"d">>}
AssignTimes == {"2024-01-01", Unavailable}

InitExport ==
    /\ fs = BaseFs(FALSE)
    /\ unc_env = Unset
    /\ AppInitSession
    /\ run = NoRun

Assign(name, modified_time, category) ==
    /\ KeyIndex(category_selection, name) # 0 \/ Len(category_selection) < MaxAssign
    /\ category_selection' = DictSet(category_selection, name, modified_time, category)
    /\ category_selection' # category_selection
    /\ generated_files' = <<>>                             \* line 283
    /\ run' = NoRun
    /\ UNCHANGED <<fs, unc_env, directory_path, options, selectbox, output_files>>

Generate(opts) ==
    /\ run.op = "none"
    /\ LET r == GenerateStep(category_selection, opts, {}, generated_files)
       IN  /\ generated_files' = r.files
           /\ run' = [NoRun EXCEPT !.op = "generate", !.grouped = r.grouped,
                                   !.made = r.made, !.raised = r.raised]
    /\ options' = opts
    /\ UNCHANGED <<fs, unc_env, directory_path, selectbox, category_selection,
                   output_files>>

OneOrAll == {[f \in Formats |-> f = g] : g \in Formats} \cup {[f \in Formats |-> TRUE]}

NextExport ==
    \/ \E name \in AssignNames, t \in AssignTimes, i \in 1..Len(categories) :
          Assign(name, t, categories[i])
    \/ \E opts \in OneOrAll : Generate(opts)

SpecExport == InitExport /\ [][NextExport]_vars

(***************************************************************************)
(* Claims about grouping and the exporters (SpecExport).                   *)
(***************************************************************************)
Generated == run.op = "generate" /\ run.raised = "none"

AssignedNames == {category_selection[i].name : i \in 1..Len(category_selection)}

\* where a name stands in the grouped data: <<group, position>>
Places(data, name) ==
    {x \in (1..Len(data)) \X (1..MaxAssign + MaxEntries + 1) :
        /\ x[2] <= Len(data[x[1]].items)
        /\ data[x[1]].items[x[2]].name = name}

GroupedNames(data) ==
    UNION {{data[g].items[j].name : j \in 1..Len(data[g].items)} : g \in 1..Len(data)}

\* C1: grouping is a partition of the assigned file names: each name stands
\* in exactly one category's list, once, and the names of all lists together
\* are the assigned names.
C1_Partition ==
    Generated =>
        /\ \A n \in AssignedNames : Cardinality(Places(run.grouped, n)) = 1
        /\ GroupedNames(run.grouped) = AssignedNames

\* two names assigned to different categories
C1_Witness ==
    /\ Generated
    /\ \E i, j \in 1..Len(category_selection) :
          /\ i # j
          /\ category_selection[i].category # category_selection[j].category
    /\ \E g \in 1..Len(run.grouped) : Len(run.grouped[g].items) >= 1

CanonicalIndex(category) == CHOOSE i \in 1..Len(categories) : categories[i] = category

\* the labels of the category rows of a table, in row order
LabelsOf(rows) ==
    LET picked == SelectSeq(rows, LAMBDA r : "label" \in DOMAIN r.left)
    IN  [i \in 1..Len(picked) |-> picked[i].left.label]

Increasing(labels) ==
    \A i, j \in 1..Len(labels) :
        i < j => CanonicalIndex(labels[i]) < CanonicalIndex(labels[j])

\* C2: the keys of the grouped data are the categories in canonical order,
\* and the category rows of every exporter's table follow that order,
\* whatever order the assignments were inserted in.
C2_CanonicalOrder ==
    Generated =>
        /\ [g \in 1..Len(run.grouped) |-> run.grouped[g].category] = categories
        /\ \A f \in run.made :
              /\ Increasing(LabelsOf(generated_files[f]))
              /\ Range(LabelsOf(generated_files[f]))
                    = {category_selection[i].category :
                          i \in 1..Len(category_selection)}

\* a later category was assigned before an earlier one, and all three
\* formats were rendered
C2_Witness ==
    /\ Generated
    /\ run.made = Formats
    /\ Len(category_selection) >= 2
    /\ CanonicalIndex(category_selection[1].category)
          > CanonicalIndex(category_selection[2].category)

\* the rows the layout contract asks for, from the assignment mapping
SectionOf(category) ==
    LET mine == SelectSeq(category_selection, LAMBDA e : e.category = category)
    IN  IF mine = <<>> THEN <<>>
        ELSE <<CategoryRow(category)>>
             \o [i \in 1..Len(mine) |-> FileRow(mine[i].name, mine[i].modified_time)]

RECURSIVE Sections(_)
Sections(i) ==
    IF i > Len(categories) THEN <<>>
    ELSE SectionOf(categories[i]) \o Sections(i + 1)

ExpectedRows == <<HeaderRow>> \o Sections(1)

\* a row without the indentation of the spreadsheet's file names
LogicalRow(r) ==
    IF "text" \in DOMAIN r.left /\ StartsWith(r.left.text, Indent)
    THEN [r EXCEPT !.left = [text |-> Drop(r.left.text, Len(Indent))]]
    ELSE r

LogicalRows(rows) == [i \in 1..Len(rows) |-> LogicalRow(rows[i])]

\* C3: the three exporters emit the same logical rows: the header row, then
\* for each category with a file, in canonical order, a category row with an
\* empty right cell and the category's file rows in stored order; only the
\* header row when no category has a file.
C3_SameRows ==
    Generated =>
        \A f \in run.made : LogicalRows(generated_files[f]) = ExpectedRows

(***************************************************************************)
(* The application: every user interaction reruns the script (lines        *)
(* 221-321) from the top with the widget values of that moment.            *)
(***************************************************************************)
DirP == Append(Cwd, <<"p">>)
DirPS == Append(DirP, <<"s">>)
DirQ == Append(Cwd, <<"q">>)
DirE == Append(Cwd, <<"e">>)

\* The directories the application is pointed at: p holds a.t, b (whose
\* modification time cannot be read) and s\a.t; q holds d; e is empty; the
\* Z: share holds b.
AppFs ==
    [loc \in {<<CDrive>>, Cwd, DirP, DirPS, DirQ, DirE, <<ShareS>>} |->
        IF loc = <<CDrive>> THEN <<DirEntry(Cwd[2])>>
        ELSE IF loc = Cwd
        THEN <<DirEntry(<<"p">>), DirEntry(<<"q">>), DirEntry(<<"e">>)>>
        ELSE IF loc = DirP
        THEN <<FileEntry(<<"a", ".", "t">>, TRUE, 0), DirEntry(<<"s">>),
               FileEntry(<<"b">>, FALSE, 0)>>
        ELSE IF loc = DirPS THEN <<FileEntry(<<"a", ".", "t">>, TRUE, 1)>>
        ELSE IF loc = DirQ THEN <<FileEntry(<<"d">>, TRUE, 1)>>
        ELSE IF loc = <<ShareS>> THEN <<FileEntry(<<"b">>, TRUE, 0)>>
        ELSE <<>>]

\* what the user types into the text input
AppPaths ==
    { <<>>, <<"p">>, <<"q">>, <<"e">>, <<"x">>, <<"Z", ":", "\\">> }

\* line 276: options=categories
SelectboxOptionsWide == Range(categories) \cup {"MISC"}

SelectboxOptions == Range(categories)

\* lines 263-277: one selectbox per item, keyed by index; a widget that was
\* rendered in the run before keeps its value, a new one shows the first
\* option.
RenderSelectboxes(state, items) ==
    [i \in 1..Len(items) |-> IF i <= Len(state) THEN state[i] ELSE categories[1]]

\* lines 259-277: the mapping the loop builds
RECURSIVE BuildSelection(_, _, _)
BuildSelection(acc, items, boxes) ==
    IF items = <<>> THEN acc
    ELSE BuildSelection(DictSet(acc, Head(items).name, Head(items).modified_time,
                                Head(boxes)),
                        Tail(items), Tail(boxes))

\* a comparison that only notices a change in the number of entries
SelectionChangedCount(computed, stored) == Len(computed) # Len(stored)

\* line 280: dict comparison (insertion order does not count)
SelectionChanged(computed, stored) == Range(computed) # Range(stored)

\* One run of the script: [selectbox, category_selection, generated_files, run].
\* boxes is the selectbox state the run starts with, button tells whether
\* "Generate Selected Files" was clicked, fails names the exporters that
\* raise when called.  The run is written stage by stage, each stage taking
\* what the stages before it computed.

\* a run that renders no selectbox and touches no session state
Quiet(path, res, lst, raised) ==
    [selectbox |-> <<>>,
     category_selection |-> category_selection,
     generated_files |-> generated_files,
     run |-> [NoRun EXCEPT !.op = "script", !.input = path, !.resolved = res,
                           !.listing = lst, !.raised = raised]]

\* lines 304-318: the download buttons, not reached when the run ended early
Finish(path, res, lst, shown, stored, button, gen) ==
    [selectbox |-> shown,
     category_selection |-> stored,
     generated_files |-> gen.files,
     run |-> [op |-> IF button THEN "generate" ELSE "script",
              input |-> path,
              resolved |-> res,
              listing |-> lst,
              grouped |-> gen.grouped,
              made |-> gen.made,
              raised |-> gen.raised,
              offered |-> IF gen.raised = "none" THEN DOMAIN gen.files ELSE {}]]

\* lines 285-302
GenerateIfClicked(path, opts, button, fails, res, lst, shown, stored, kept) ==
    Finish(path, res, lst, shown, stored, button,
           IF button
           THEN GenerateStep(stored, opts, fails, kept)
           ELSE [files |-> kept, grouped |-> <<>>, made |-> {}, raised |-> "none"])

\* a change of the selection that is stored without generated_files.clear()
StoreSelectionKeep(path, opts, button, fails, res, lst, shown, computed) ==
    GenerateIfClicked(path, opts, button, fails, res, lst, shown,
                      IF SelectionChanged(computed, category_selection)
                      THEN computed ELSE category_selection,
                      generated_files)

\* lines 279-283
StoreSelection(path, opts, button, fails, res, lst, shown, computed) ==
    IF SelectionChanged(computed, category_selection)
    THEN GenerateIfClicked(path, opts, button, fails, res, lst, shown, computed, <<>>)
    ELSE GenerateIfClicked(path, opts, button, fails, res, lst, shown,
                           category_selection, generated_files)

\* lines 258-277
ShowItems(path, opts, button, fails, res, lst, shown) ==
    StoreSelection(path, opts, button, fails, res, lst, shown,
                   BuildSelection(<<>>, lst.items, shown))

\* lines 255-257
AfterListing(path, opts, boxes, button, fails, res, lst) ==
    IF lst.raised # "none" THEN Quiet(path, res, lst, lst.raised)    \* line 320
    ELSE IF lst.items = <<>> THEN Quiet(path, res, lst, "none")
    ELSE ShowItems(path, opts, button, fails, res, lst,
                   RenderSelectboxes(boxes, lst.items))

\* lines 251-255
AfterResolve(path, opts, boxes, button, fails, res) ==
    IF res.raised # "none" THEN Quiet(path, res, NoRun.listing, res.raised)
    ELSE IF ~(res.path # <<>> /\ exists(res.path)) THEN Quiet(path, res, NoRun.listing, "none")
    ELSE AfterListing(path, opts, boxes, button, fails, res,
                      get_files(res.path, path))

\* lines 249-321
ScriptRun(path, opts, boxes, button, fails) ==
    IF path = <<>> THEN Quiet(path, NoRun.resolved, NoRun.listing, "none")
    ELSE AfterResolve(path, opts, boxes, button, fails, resolve_path(path))

Commit(path, opts, r) ==
    /\ directory_path' = path
    /\ options' = opts
    /\ selectbox' = r.selectbox
    /\ category_selection' = r.category_selection
    /\ generated_files' = r.generated_files
    /\ run' = r.run
    /\ UNCHANGED <<fs, unc_env, output_files>>    \* app.py saves no file

Rerun(path, opts, boxes, button, fails) ==
    Commit(path, opts, ScriptRun(path, opts, boxes, button, fails))

Init ==
    /\ fs = AppFs
    /\ unc_env = SetTo(ShareS)
    /\ AppInitSession
    /\ run = NoRun

\* line 238
EditPath(path) ==
    /\ path # directory_path
    /\ Rerun(path, options, selectbox, FALSE, {})

\* lines 241-243
ToggleOption(f) ==
    /\ f \in DOMAIN options
    /\ Rerun(directory_path, [options EXCEPT ![f] = ~@], selectbox, FALSE, {})

\* the labels the user tries in the model: three of the offered ones and
\* one that is not offered
UserPicks == {"CONTRACTUAL", "SERVICES", "SAFETY", "MISC"}

\* line 276: a selectbox returns one of its options
SelectCategory(i, category) ==
    /\ i \in 1..Len(selectbox)
    /\ category \in SelectboxOptions
    /\ category # selectbox[i]
    /\ Rerun(directory_path, options, [selectbox EXCEPT ![i] = category], FALSE, {})

\* line 246; at most one exporter raises (a second one would not be reached)
ClickGenerate(fails) ==
    /\ Cardinality(fails) <= 1
    /\ Rerun(directory_path, options, selectbox, TRUE, fails)

\* lines 267-273 and 308-318: a click on a copy button or on a download
\* button reruns the script with nothing changed
ClickCopyOrDownload ==
    /\ selectbox # <<>> \/ run.offered # {}
    /\ Rerun(directory_path, options, selectbox, FALSE, {})

Next ==
    \/ \E path \in AppPaths : EditPath(path)
    \/ \E f \in Formats : ToggleOption(f)
    \/ \E i \in 1..Len(selectbox), category \in UserPicks :
          SelectCategory(i, category)
    \/ \E fails \in SUBSET Formats : ClickGenerate(fails)
    \/ ClickCopyOrDownload

Spec == Init /\ [][Next]_vars

(***************************************************************************)
(* Claims about the application (Spec).                                    *)
(***************************************************************************)
\* the run listed a directory: lines 251-255 were passed
Listed ==
    /\ run.op \in {"script", "generate"}
    /\ run.resolved.raised = "none"
    /\ run.resolved.path # <<>>
    /\ exists(run.resolved.path)

Exported == run.op = "generate" /\ run.raised = "none"

\* the records of files whose modification time cannot be read
Unreadable ==
    {i \in 1..Len(run.listing.items) :
        getmtime(run.listing.items[i].full_path).raised}

AssignedCategory(name) ==
    category_selection[KeyIndex(category_selection, name)].category

\* the label of the category row a row stands under
HeadingAbove(rows, k) ==
    LET hs == {j \in 1..k : "label" \in DOMAIN rows[j].left}
    IN  IF hs = {} THEN ""
        ELSE rows[CHOOSE j \in hs : \A h \in hs : h <= j].left.label

RowsNaming(rows, name) ==
    {k \in 1..Len(rows) : LogicalRow(rows[k]).left = [text |-> name]}

\* C5: a file whose modification time cannot be read gets the record
\* "Unavailable", the enumeration raises nothing and loses no file, and the
\* export holds a row for the file under the category it is assigned to.
C5_UnavailableKept ==
    Listed =>
        /\ run.listing.raised = "none"
        /\ \A f \in FilesUnder(Locate(run.resolved.path)) :
              Cardinality(RecordsOf(f)) = 1
        /\ \A i \in Unreadable : run.listing.items[i].modified_time = Unavailable
        /\ Exported =>
              \A f \in run.made : \A i \in Unreadable :
                 \E k \in RowsNaming(generated_files[f], run.listing.items[i].name) :
                    HeadingAbove(generated_files[f], k)
                       = AssignedCategory(run.listing.items[i].name)

\* an unreadable file with files listed after it, moved out of the first
\* category, and exported in every format
C5_Witness ==
    /\ Listed
    /\ Exported
    /\ run.made = Formats
    /\ \E i \in Unreadable :
          /\ i < Len(run.listing.items)
          /\ AssignedCategory(run.listing.items[i].name) # categories[1]

\* every label a table shows as a category row
ShownLabels == UNION {Range(LabelsOf(generated_files[f])) : f \in DOMAIN generated_files}

StoredLabels ==
    {category_selection[i].category : i \in 1..Len(category_selection)}

FilledLabels ==
    {run.grouped[g].category :
        g \in {h \in 1..Len(run.grouped) : run.grouped[h].items # <<>>}}

\* C8 (as amended): every label in the assignment mapping, in a selectbox,
\* in the grouped data and in a stored table is one of the fixed categories,
\* and no run ends with an error about a category.
C8_LabelsInSet ==
    /\ StoredLabels \subseteq Range(categories)
    /\ Range(selectbox) \subseteq Range(categories)
    /\ FilledLabels \subseteq Range(categories)
    /\ ShownLabels \subseteq Range(categories)
    /\ run.raised # "KeyError"

\* a label other than the first was picked and the files were exported
C8_Witness ==
    /\ Exported
    /\ run.made # {}
    /\ "SAFETY" \in StoredLabels
    /\ "SAFETY" \in ShownLabels

\* a step that answers the pick of a label with an invalid-category error
RejectInvalid(i, category) ==
    /\ SelectCategory(i, category)
    /\ run'.raised = "InvalidCategoryError"

\* C8 (as stated): the labels of the assignment mapping are in the fixed
\* set, and where a category can be picked, the pick of a label outside the
\* set is answered with an invalid-category error.
C8_InvalidRejected ==
    /\ StoredLabels \subseteq Range(categories)
    /\ FilledLabels \subseteq Range(categories)
    /\ selectbox # <<>> =>
          \A category \in UserPicks \ Range(categories) :
             ENABLED (\E i \in 1..Len(selectbox) : RejectInvalid(i, category))

\* C9: when an exporter raises in a generate step, its format is neither
\* rendered nor offered by that run, and every other selected format is
\* rendered and stored.
C9_FailureIsolated ==
    (run.op = "generate" /\ run.raised \in Formats) =>
        /\ run.raised \notin run.made
        /\ run.raised \notin run.offered
        /\ \A g \in Formats \ {run.raised} :
              options[g] => g \in run.made /\ g \in DOMAIN generated_files

ListedNames == {run.listing.items[i].name : i \in 1..Len(run.listing.items)}

TableNames(rows) ==
    {LogicalRow(rows[k]).left.text :
        k \in {j \in 1..Len(rows) : "text" \in DOMAIN rows[j].left}}

\* C10: at a generate step every name in the grouped data is the name of a
\* record this run enumerated, and every file name in a rendered or offered
\* table has an entry in the assignment mapping.
C10_SameRunNames ==
    run.op = "generate" =>
        /\ GroupedNames(run.grouped) \subseteq ListedNames
        /\ \A f \in run.made \cup run.offered :
              TableNames(generated_files[f]) \subseteq AssignedNames

\* a generate step in a second directory, after a category was changed in
\* the first
C10_Witness ==
    /\ Exported
    /\ run.made # {}
    /\ GroupedNames(run.grouped) = {<<"d">>}
    /\ selectbox # <<categories[1]>>

\* several records of the enumeration carry one name
Collides ==
    \E i, j \in 1..Len(run.listing.items) :
        /\ i < j
        /\ run.listing.items[i].name = run.listing.items[j].name

\* the last record with a name, in enumeration order
LastIndex(name) ==
    CHOOSE i \in 1..Len(run.listing.items) :
        /\ run.listing.items[i].name = name
        /\ \A j \in 1..Len(run.listing.items) :
              run.listing.items[j].name = name => j <= i

EntriesFor(name) ==
    {k \in 1..Len(category_selection) : category_selection[k].name = name}

\* C11: when several enumerated files share a name, the assignment mapping
\* holds one entry for the name, with the modified time and the category of
\* the last such file in enumeration order, and every exported table has
\* one file row per distinct name.
C11_LastWins ==
    (Listed /\ Collides /\ selectbox # <<>>) =>
        /\ \A n \in ListedNames :
              /\ Cardinality(EntriesFor(n)) = 1
              /\ \A k \in EntriesFor(n) :
                    /\ category_selection[k].modified_time
                          = run.listing.items[LastIndex(n)].modified_time
                    /\ category_selection[k].category = selectbox[LastIndex(n)]
        /\ Exported =>
              \A f \in run.made : \A n \in ListedNames :
                 Cardinality(RowsNaming(generated_files[f], n)) = 1

\* what an exporter makes of the selection the session stores
RenderedFromStored(f) == Render(f, Group(EmptyGroups, category_selection).data)

\* C12: every artifact held in generated_files (and so every one offered
\* for download) is what its exporter renders from the stored category
\* selection, and after a run that showed the items the stored selection
\* is the one that run computed.
C12_ArtifactsCurrent ==
    /\ \A f \in DOMAIN generated_files : generated_files[f] = RenderedFromStored(f)
    /\ run.offered \subseteq DOMAIN generated_files
    /\ (Listed /\ selectbox # <<>>) =>
          Range(category_selection)
             = Range(BuildSelection(<<>>, run.listing.items, selectbox))

\* artifacts of a selection with a changed category, still offered by a
\* later run that generated nothing
C12_Witness ==
    /\ run.op = "script"
    /\ run.offered # {}
    /\ "SAFETY" \in StoredLabels
    /\ "SAFETY" \in ShownLabels

(***************************************************************************)
(* FileNames_Excel.py: the earlier script.  It has its own get_files and   *)
(* exporters, five categories, no resolve_path and no stored selection;    *)
(* its exporters save a file under a fixed name in the working directory.  *)
(* Its definitions carry the prefix FileNames_.                            *)
(***************************************************************************)
\* lines 25-27: the tuple appended for one file
FileNames_RecordWith(name, full_path, m) ==
    [name |-> name, modified_time |-> strftime(m.mtime), full_path |-> full_path]

FileNames_RecordAt(name, full_path) ==
    FileNames_RecordWith(name, full_path, getmtime(full_path))

FileNames_Record(root, name) == FileNames_RecordAt(name, join(root, name))

\* lines 23-27
RECURSIVE FileNames_Records(_)
FileNames_RecordsOf(t, rest) ==
    [i \in 1..Len(t.files) |-> FileNames_Record(t.root, t.files[i])]
        \o FileNames_Records(rest)
FileNames_Records(triples) ==
    IF triples = <<>> THEN <<>>
    ELSE FileNames_RecordsOf(Head(triples), Tail(triples))

\* line 26 has no try/except: getmtime raises out of get_files
FileNames_Unreadable(triples) ==
    \E k \in 1..Len(triples) : \E i \in 1..Len(triples[k].files) :
        getmtime(join(triples[k].root, triples[k].files[i])).raised

FileNames_Walked(triples) ==
    IF FileNames_Unreadable(triples)
    THEN [raised |-> "OSError", items |-> <<>>]
    ELSE [raised |-> "none", items |-> FileNames_Records(triples)]

\* get_files(path): [raised, items]
FileNames_get_files(path) == FileNames_Walked(walk(path))

\* line 194
FileNames_categories ==
    <<"CONTRACTUAL", "ARCHITECTURAL", "STRUCTURAL", "SERVICES", "SAFETY">>

\* line 214
FileNames_EmptyGroups ==
    [i \in 1..Len(FileNames_categories) |->
        [category |-> FileNames_categories[i], items |-> <<>>]]

\* lines 220, 224, 229: the names the exporters save under
FileNames_OutputPath ==
    [excel |-> "categorized_files.xlsx",
     word |-> "categorized_files.docx",
     pdf |-> "categorized_files.pdf"]

\* An exporter's result: the rows it saved at output_path and the value it
\* returned, a path or a buffer.
FileNames_SavedAt(rows, output_path) ==
    [saved |-> rows, returned |-> [path |-> output_path]]

FileNames_SavedAndBuffer(rows) ==
    [saved |-> rows, returned |-> [buffer |-> rows]]

\* generate_word(categories, output_path): returns output_path
FileNames_generate_word(data, output_path) ==
    FileNames_SavedAt(<<HeaderRow>> \o DataRows(data), output_path)

\* generate_pdf(categories, output_path): returns the buffer
FileNames_generate_pdf(data, output_path) ==
    FileNames_SavedAndBuffer(<<HeaderRow>> \o DataRows(data))

\* lines 145-162: to_excel, the header cells, the loop over df.iterrows()
FileNames_Sheet(df) ==
    WriteRows(SetRow(to_excel(df, 1), 1, HeaderRow), df, 0 + 2)

\* generate_excel(categories, output_path): returns output_path
FileNames_generate_excel(data, output_path) ==
    FileNames_SavedAt(FileNames_Sheet(ExcelData(data)), output_path)

FileNames_Render(format, data) ==
    IF format = "excel"
    THEN FileNames_generate_excel(data, FileNames_OutputPath[format])
    ELSE IF format = "word"
    THEN FileNames_generate_word(data, FileNames_OutputPath[format])
    ELSE FileNames_generate_pdf(data, FileNames_OutputPath[format])

\* lines 221, 226, 231 and the file the exporter saved
FileNames_Store(f, r, acc) ==
    [files |-> (f :> r.returned) @@ acc.files,
     saved |-> (FileNames_OutputPath[f] :> r.saved) @@ acc.saved,
     made |-> acc.made \cup {f}]

\* lines 219, 223, 228: the condition an exporter is called under
FileNames_Needed(f, opts, files) == opts[f] /\ f \notin DOMAIN files

\* lines 219-231.  acc is [files, saved, made].
RECURSIVE FileNames_ExportFold(_, _, _, _)
FileNames_ExportFold(order, opts, data, acc) ==
    IF order = <<>> THEN acc
    ELSE IF FileNames_Needed(Head(order), opts, acc.files)
    THEN FileNames_ExportFold(Tail(order), opts, data,
             FileNames_Store(Head(order), FileNames_Render(Head(order), data), acc))
    ELSE FileNames_ExportFold(Tail(order), opts, data, acc)

\* what the session and the working directory hold before the run
FileNames_Kept == [files |-> generated_files, saved |-> output_files, made |-> {}]

\* lines 235, 238, 241: the data a download button is given: the value in
\* generated_files for Excel and PDF, the opened file for Word
FileNames_DownloadData(files, saved, f) ==
    IF f = "word" THEN [bytes |-> saved[files[f].path]]
    ELSE IF f = "pdf" THEN [bytes |-> files[f].buffer]
    ELSE [text |-> files[f].path]

\* line 207: a new selectbox shows the first option
FileNames_RenderSelectboxes(state, items) ==
    [i \in 1..Len(items) |->
        IF i <= Len(state) THEN state[i] ELSE FileNames_categories[1]]

\* a run that renders no selectbox: [selectbox, generated_files,
\* output_files, run]
FileNames_Quiet(path, lst, raised) ==
    [selectbox |-> <<>>,
     generated_files |-> generated_files,
     output_files |-> output_files,
     run |-> [NoRun EXCEPT !.op = "script", !.input = path, !.listing = lst,
                           !.raised = raised]]

\* lines 233-241
FileNames_Finish(path, opts, lst, shown, button, grouped, acc) ==
    [selectbox |-> shown,
     generated_files |-> acc.files,
     output_files |-> acc.saved,
     run |-> [op |-> IF button THEN "generate" ELSE "script",
              input |-> path,
              resolved |-> NoRun.resolved,
              listing |-> lst,
              grouped |-> grouped,
              made |-> acc.made,
              raised |-> "none",
              offered |-> {f \in Formats : opts[f] /\ f \in DOMAIN acc.files}]]

\* lines 214-231
FileNames_Export(path, opts, lst, shown, g) ==
    FileNames_Finish(path, opts, lst, shown, TRUE, g.data,
                     FileNames_ExportFold(ExportOrder, opts, g.data, FileNames_Kept))

\* lines 211-231
FileNames_GenerateIfClicked(path, opts, button, lst, shown, selection) ==
    IF button
    THEN FileNames_Export(path, opts, lst, shown,
                          Group(FileNames_EmptyGroups, selection))
    ELSE FileNames_Finish(path, opts, lst, shown, FALSE, <<>>, FileNames_Kept)

\* lines 194-208
FileNames_ShowItems(path, opts, button, lst, shown) ==
    FileNames_GenerateIfClicked(path, opts, button, lst, shown,
                                BuildSelection(<<>>, lst.items, shown))

\* lines 191-193
FileNames_AfterListing(path, opts, boxes, button, lst) ==
    IF lst.raised # "none" THEN FileNames_Quiet(path, lst, lst.raised)
    ELSE IF lst.items = <<>> THEN FileNames_Quiet(path, lst, "none")
    ELSE FileNames_ShowItems(path, opts, button, lst,
                             FileNames_RenderSelectboxes(boxes, lst.items))

\* lines 190-246
FileNames_ScriptRun(path, opts, boxes, button) ==
    IF path = <<>> \/ ~exists(path)
    THEN FileNames_Quiet(path, NoRun.listing, "none")
    ELSE FileNames_AfterListing(path, opts, boxes, button,
                                FileNames_get_files(path))

FileNames_Commit(path, opts, r) ==
    /\ directory_path' = path
    /\ options' = opts
    /\ selectbox' = r.selectbox
    /\ generated_files' = r.generated_files
    /\ output_files' = r.output_files
    /\ run' = r.run
    /\ UNCHANGED <<fs, unc_env, category_selection>>

FileNames_Rerun(path, opts, boxes, button) ==
    FileNames_Commit(path, opts, FileNames_ScriptRun(path, opts, boxes, button))

\* what the user types into the text input: nothing, a directory with an
\* unreadable file, a directory with one file, an empty one, a missing one
FileNames_Paths == { <<>>, <<"p">>, <<"q">>, <<"e">>, <<"x">> }

FileNames_Init ==
    /\ fs = AppFs
    /\ unc_env = Unset
    /\ AppInitSession
    /\ run = NoRun

\* line 171
FileNames_EditPath(path) ==
    /\ path # directory_path
    /\ FileNames_Rerun(path, options, selectbox, FALSE)

\* lines 186-188
FileNames_ToggleOption(f) ==
    /\ f \in DOMAIN options
    /\ FileNames_Rerun(directory_path, [options EXCEPT ![f] = ~@], selectbox, FALSE)

\* line 207: a selectbox returns one of its options
FileNames_SelectCategory(i, category) ==
    /\ i \in 1..Len(selectbox)
    /\ category \in Range(FileNames_categories)
    /\ category # selectbox[i]
    /\ FileNames_Rerun(directory_path, options,
                       [selectbox EXCEPT ![i] = category], FALSE)

\* line 211
FileNames_ClickGenerate ==
    /\ selectbox # <<>>
    /\ FileNames_Rerun(directory_path, options, selectbox, TRUE)

\* lines 203 and 235-241: a click on a copy button or on a download button
\* reruns the script with nothing changed
FileNames_ClickCopyOrDownload ==
    /\ selectbox # <<>>
    /\ FileNames_Rerun(directory_path, options, selectbox, FALSE)

FileNames_Next ==
    \/ \E path \in FileNames_Paths : FileNames_EditPath(path)
    \/ \E f \in Formats : FileNames_ToggleOption(f)
    \/ \E i \in 1..Len(selectbox), category \in UserPicks :
          FileNames_SelectCategory(i, category)
    \/ FileNames_ClickGenerate
    \/ FileNames_ClickCopyOrDownload

SpecFileNames == FileNames_Init /\ [][FileNames_Next]_vars

(***************************************************************************)
(* Claims about FileNames_Excel.py (SpecFileNames).                        *)
(***************************************************************************)
\* the data a download button would be given had the exporter of the format
\* run on the grouped data
FreshData(f, data) ==
    FileNames_DownloadData(f :> FileNames_Render(f, data).returned,
                           FileNames_OutputPath[f] :> FileNames_Render(f, data).saved,
                           f)

\* C13: after a click of "Generate Selected Files" the artifact offered for
\* download for each selected format is the one rendered from the grouped
\* data of that click.
C13_OfferedFresh ==
    (run.op = "generate" /\ run.raised = "none") =>
        \A f \in run.offered :
            FileNames_DownloadData(generated_files, output_files, f)
                = FreshData(f, run.grouped)

====
